---- MODULE Spec2Model ----
(***************************************************************************)
(* The request/response adapter of the module framework:                   *)
(* FrameworkModuleWrapper.Generate and NewGeneratorRequest of              *)
(* pkg/module/module.go.  One call of Generate is a sequence of steps      *)
(* (validate, unmarshal each layer, marshal the typed request for the log, *)
(* invoke the module, marshal each resource, marshal the patcher); several *)
(* calls may be in progress at once, each with its own locals, sharing     *)
(* only the logger.  The earlier adapter, with four layers and a required  *)
(* workload, is modelled at the end of the module.                         *)
(***************************************************************************)
EXTENDS Naturals, Sequences, FiniteSets

(***************************************************************************)
(* Bounds of the model.                                                    *)
(***************************************************************************)
\* Longest resource list a module returns.
MaxResources == 2

\* The calls that may be in progress at once.
CallIds == {"c1", "c2"}

(***************************************************************************)
(* Go values.                                                              *)
(***************************************************************************)
\* A nil []byte.
NilBytes == "<nil>"

\* A nil error.
NilError == [msg |-> "<nil>"]

\* errors.New(msg): an error that wraps nothing.
NewError(msg) == [msg |-> msg]

\* fmt.Errorf(msg + " %w", err): an error that wraps err.
Wrap(msg, err) == [msg |-> msg, cause |-> err]

\* A nil *proto.GeneratorRequest.
NilWireRequest == [isNil |-> TRUE]

\* A nil *GeneratorRequest.
NilRequest == [isNil |-> TRUE]

\* A nil *GeneratorResponse, as a module may return it.
NilResponse == [isNil |-> TRUE]

\* A nil *proto.GeneratorResponse.
NilWireResponse == [isNil |-> TRUE]

\* A nil *v1.Patcher.
NilPatcher == "<nil>"

(***************************************************************************)
(* The five layers, in the order NewGeneratorRequest reads them: workload, *)
(* devConfig, platformConfig, context, secretStore.                        *)
(***************************************************************************)
\* The Go type each layer decodes into.
LayerType == <<"v1.Accessory", "v1.Accessory", "v1.GenericConfig",
               "v1.GenericConfig", "v1.SecretStore">>

\* The text NewGeneratorRequest puts before the decode error of each layer.
LayerErrMsg == <<"unmarshal workload failed", "unmarshal dev config failed",
                 "unmarshal platform module config failed",
                 "unmarshal context failed", "unmarshal secret store failed">>

\* The decoder of each layer: gopkg.in/yaml.v2 for the workload, yaml.v3 for the rest.
LayerCodec == <<"yaml.v2", "yaml.v3", "yaml.v3", "yaml.v3", "yaml.v3">>

(***************************************************************************)
(* The codec.  A byte sequence is one of: nil; "doc", a document that      *)
(* decodes and whose value encodes again; "odd", a document that decodes   *)
(* to a value the encoder reports an error for; "bad", bytes the decoder   *)
(* reports an error for.                                                   *)
(***************************************************************************)
Blobs == {NilBytes, "doc", "odd", "bad"}

\* var w v1.Accessory, var pc v1.GenericConfig, ...: the zero value of type t.
ZeroValue(t) == [type |-> t, content |-> "<zero>"]

\* yaml.Unmarshal(b, &v) with v the zero value of type t, by decoder codec.
Unmarshal(codec, b, t) ==
    IF b = "bad"
    THEN [val |-> ZeroValue(t), err |-> NewError(codec \o ": cannot unmarshal")]
    ELSE [val |-> [type |-> t, content |-> b], err |-> NilError]

\* The error yaml.Marshal reports for a layer value, NilError when it encodes.
MarshalValueErr(v) ==
    IF v.content = "odd"
    THEN NewError("yaml: cannot marshal")
    ELSE NilError

\* The resource descriptors and patchers a module may return; "rbad" and
\* "pbad" are values yaml.Marshal reports an error for.
ResourceValues == {"r1", "r2", "rbad"}
PatcherValues == {NilPatcher, "p1", "pbad"}

\* yaml.Marshal(v) of a resource or a patcher: the bytes and the error.
Marshal(v) ==
    IF v \in {"rbad", "pbad"}
    THEN [out |-> NilBytes, err |-> NewError("yaml: cannot marshal")]
    ELSE [out |-> "yaml(" \o v \o ")", err |-> NilError]

(***************************************************************************)
(* Inputs.                                                                 *)
(***************************************************************************)
\* The identifier strings of a request; the assembler copies them unread.
Idents == {<<"", "", "">>, <<"p", "s", "a">>}

\* A *proto.GeneratorRequest: nil, or the identifiers and five byte sequences.
WireRequest(id, layers) ==
    [Project |-> id[1], Stack |-> id[2], App |-> id[3],
     Workload |-> layers[1], DevConfig |-> layers[2], PlatformConfig |-> layers[3],
     Context |-> layers[4], SecretStore |-> layers[5]]

WireRequests ==
    {NilWireRequest} \cup
    {WireRequest(id, layers) : id \in Idents, layers \in [1..5 -> Blobs]}

\* The byte sequence of layer i in a (non-nil) wire request.
LayerOf(req, i) ==
    CASE i = 1 -> req.Workload
      [] i = 2 -> req.DevConfig
      [] i = 3 -> req.PlatformConfig
      [] i = 4 -> req.Context
      [] i = 5 -> req.SecretStore

\* The state of the caller's context.Context when Generate is called.
Contexts == {"live", "cancelled"}

\* Sequences over S of length at most n.
SeqsUpTo(S, n) == UNION {[1..k -> S] : k \in 0..n}

\* What FrameworkModule.Generate may return: an error (its own, or one it
\* derives from a cancelled context), a nil response, or a response.
ModuleResponses ==
    {[Resources |-> rs, Patcher |-> p] :
        rs \in SeqsUpTo(ResourceValues, MaxResources), p \in PatcherValues}

ModuleErrors == {NewError("module failed"), NewError("context canceled")}

ModuleOutcomes ==
    {[response |-> r, err |-> e] :
        r \in ModuleResponses \cup {NilResponse}, e \in ModuleErrors \cup {NilError}}

(***************************************************************************)
(* State.  Every variable but log is a function of the call: the locals of *)
(* that call of Generate and of the NewGeneratorRequest it makes.          *)
(***************************************************************************)
VARIABLES
    pc,         \* where the call is
    req,        \* Generate's req: the wire request
    ctx,        \* Generate's ctx: the caller's context
    layer,      \* NewGeneratorRequest: the layer it reads next, 1..5
    vals,       \* NewGeneratorRequest: w, dc, pc, ctx, secretStore
    decoded,    \* the layers yaml.Unmarshal was called on
    asm,        \* what NewGeneratorRequest returned: [result, err]
    invoked,    \* how many times the call invoked f.Module.Generate
    passed,     \* the ctx and request the module was invoked with
    modOut,     \* what f.Module.Generate returned: [response, err]
    resources,  \* Generate's resources: the encoded resources so far
    ret,        \* what Generate returned: [response, err]
    log         \* the records written to the process-wide logger

vars == <<pc, req, ctx, layer, vals, decoded, asm, invoked, passed, modOut,
          resources, ret, log>>

\* The locals of NewGeneratorRequest before it runs.
ZeroVals == [i \in 1..5 |-> ZeroValue(LayerType[i])]

\* Nothing returned yet.
NoReturn == [pending |-> TRUE]

Init ==
    /\ pc = [c \in CallIds |-> "idle"]
    /\ req = [c \in CallIds |-> NilWireRequest]
    /\ ctx = [c \in CallIds |-> "live"]
    /\ layer = [c \in CallIds |-> 1]
    /\ vals = [c \in CallIds |-> ZeroVals]
    /\ decoded = [c \in CallIds |-> {}]
    /\ asm = [c \in CallIds |-> NoReturn]
    /\ invoked = [c \in CallIds |-> 0]
    /\ passed = [c \in CallIds |-> NoReturn]
    /\ modOut = [c \in CallIds |-> NoReturn]
    /\ resources = [c \in CallIds |-> <<>>]
    /\ ret = [c \in CallIds |-> NoReturn]
    /\ log = {}

\* log.Infof / log.Info: one record, tagged with the call that wrote it.
LogWrite(c, msg, arg) == log \cup {[call |-> c, msg |-> msg, arg |-> arg]}

(***************************************************************************)
(* Generate is called (module.go:26): the host hands it a context and a    *)
(* wire request, and it calls NewGeneratorRequest (module.go:27).          *)
(***************************************************************************)
Call(c, reqs) ==
    /\ pc[c] = "idle"
    /\ \E r \in reqs, x \in Contexts :
          /\ req' = [req EXCEPT ![c] = r]
          /\ ctx' = [ctx EXCEPT ![c] = x]
    /\ pc' = [pc EXCEPT ![c] = "validate"]
    /\ UNCHANGED <<layer, vals, decoded, asm, invoked, passed, modOut,
                   resources, ret, log>>

\* A faulty ValidateRequest: a nil wire request is taken for an empty one.
ValidateRequestNilAsEmpty(c) ==
    /\ pc[c] = "validate"
    /\ log' = LogWrite(c, "module proto request received", req[c])
    /\ IF req[c] = NilWireRequest
       THEN /\ asm' = [asm EXCEPT ![c] =
                         [result |-> [Project |-> "", Stack |-> "", App |-> "",
                                      Workload |-> vals[c][1], DevConfig |-> vals[c][2],
                                      PlatformConfig |-> vals[c][3], Context |-> vals[c][4],
                                      SecretStore |-> vals[c][5]],
                          err |-> NilError]]
            /\ pc' = [pc EXCEPT ![c] = "assembled"]
       ELSE /\ pc' = [pc EXCEPT ![c] = "unmarshal"]
            /\ UNCHANGED asm
    /\ UNCHANGED <<req, ctx, layer, vals, decoded, invoked, passed, modOut,
                   resources, ret>>

(***************************************************************************)
(* NewGeneratorRequest, module.go:90-95: log the wire request, reject nil. *)
(***************************************************************************)
ValidateRequest(c) ==
    /\ pc[c] = "validate"
    /\ log' = LogWrite(c, "module proto request received", req[c])
    /\ IF req[c] = NilWireRequest
       THEN /\ asm' = [asm EXCEPT ![c] =
                         [result |-> NilRequest,
                          err |-> NewError("empty generator request")]]
            /\ pc' = [pc EXCEPT ![c] = "assembled"]
       ELSE /\ pc' = [pc EXCEPT ![c] = "unmarshal"]
            /\ UNCHANGED asm
    /\ UNCHANGED <<req, ctx, layer, vals, decoded, invoked, passed, modOut,
                   resources, ret>>

\* A faulty UnmarshalLayer: the workload is required, as it was in the
\* earlier NewGeneratorRequest, and a request without one is rejected.
UnmarshalLayerWorkloadRequired(c) ==
    /\ pc[c] = "unmarshal"
    /\ LET i == layer[c]
           b == LayerOf(req[c], i)
           u == Unmarshal(LayerCodec[i], b, LayerType[i])
       IN  IF i = 1 /\ b = NilBytes
           THEN /\ asm' = [asm EXCEPT ![c] =
                             [result |-> NilRequest,
                              err |-> NewError("workload in the request is nil")]]
                /\ pc' = [pc EXCEPT ![c] = "assembled"]
                /\ UNCHANGED <<decoded, vals, layer>>
           ELSE IF b # NilBytes
           THEN /\ decoded' = [decoded EXCEPT ![c] = @ \cup {i}]
                /\ IF u.err # NilError
                   THEN /\ asm' = [asm EXCEPT ![c] =
                                     [result |-> NilRequest,
                                      err |-> Wrap(LayerErrMsg[i], u.err)]]
                        /\ pc' = [pc EXCEPT ![c] = "assembled"]
                        /\ UNCHANGED <<vals, layer>>
                   ELSE /\ vals' = [vals EXCEPT ![c][i] = u.val]
                        /\ layer' = [layer EXCEPT ![c] = IF i < 5 THEN i + 1 ELSE i]
                        /\ pc' = [pc EXCEPT ![c] =
                                    IF i < 5 THEN "unmarshal" ELSE "marshalRequest"]
                        /\ UNCHANGED asm
           ELSE /\ layer' = [layer EXCEPT ![c] = IF i < 5 THEN i + 1 ELSE i]
                /\ pc' = [pc EXCEPT ![c] =
                            IF i < 5 THEN "unmarshal" ELSE "marshalRequest"]
                /\ UNCHANGED <<decoded, asm, vals>>
    /\ UNCHANGED <<req, ctx, invoked, passed, modOut, resources, ret, log>>

\* A faulty UnmarshalLayer: a decode error is kept and the remaining layers
\* are decoded all the same, so that the last error is the one returned.
UnmarshalLayerCollect(c) ==
    /\ pc[c] = "unmarshal"
    /\ LET i == layer[c]
           b == LayerOf(req[c], i)
           u == Unmarshal(LayerCodec[i], b, LayerType[i])
           failed == (b # NilBytes /\ u.err # NilError) \/ asm[c] # NoReturn
       IN  /\ decoded' = [decoded EXCEPT ![c] = IF b # NilBytes THEN @ \cup {i} ELSE @]
           /\ asm' = [asm EXCEPT ![c] =
                        IF b # NilBytes /\ u.err # NilError
                        THEN [result |-> NilRequest, err |-> Wrap(LayerErrMsg[i], u.err)]
                        ELSE @]
           /\ vals' = [vals EXCEPT ![c][i] =
                         IF b # NilBytes /\ u.err = NilError THEN u.val ELSE @]
           /\ layer' = [layer EXCEPT ![c] = IF i < 5 THEN i + 1 ELSE i]
           /\ pc' = [pc EXCEPT ![c] =
                       IF i < 5 THEN "unmarshal"
                       ELSE IF failed THEN "assembled" ELSE "marshalRequest"]
    /\ UNCHANGED <<req, ctx, invoked, passed, modOut, resources, ret, log>>

(***************************************************************************)
(* NewGeneratorRequest, module.go:97-131: one of the five blocks           *)
(*     var v T; if req.L != nil { if err := Unmarshal(req.L, &v) ... }     *)
(* for the layer the call has come to.                                     *)
(***************************************************************************)
UnmarshalLayer(c) ==
    /\ pc[c] = "unmarshal"
    /\ LET i == layer[c]
           b == LayerOf(req[c], i)
           u == Unmarshal(LayerCodec[i], b, LayerType[i])
       IN  IF b # NilBytes
           THEN /\ decoded' = [decoded EXCEPT ![c] = @ \cup {i}]
                /\ IF u.err # NilError
                   THEN /\ asm' = [asm EXCEPT ![c] =
                                     [result |-> NilRequest,
                                      err |-> Wrap(LayerErrMsg[i], u.err)]]
                        /\ pc' = [pc EXCEPT ![c] = "assembled"]
                        /\ UNCHANGED <<vals, layer>>
                   ELSE /\ vals' = [vals EXCEPT ![c][i] = u.val]
                        /\ layer' = [layer EXCEPT ![c] = IF i < 5 THEN i + 1 ELSE i]
                        /\ pc' = [pc EXCEPT ![c] =
                                    IF i < 5 THEN "unmarshal" ELSE "marshalRequest"]
                        /\ UNCHANGED asm
           ELSE /\ layer' = [layer EXCEPT ![c] = IF i < 5 THEN i + 1 ELSE i]
                /\ pc' = [pc EXCEPT ![c] =
                            IF i < 5 THEN "unmarshal" ELSE "marshalRequest"]
                /\ UNCHANGED <<decoded, asm, vals>>
    /\ UNCHANGED <<req, ctx, invoked, passed, modOut, resources, ret, log>>

\* module.go:133-142: the typed request built from the wire request and the locals.
GeneratorRequest(r, v) ==
    [Project |-> r.Project, Stack |-> r.Stack, App |-> r.App,
     Workload |-> v[1], DevConfig |-> v[2], PlatformConfig |-> v[3],
     Context |-> v[4], SecretStore |-> v[5]]

\* yaml.Marshal(result) of a typed request: the error of the first field the
\* encoder reports one for, NilError when every field encodes.
MarshalRequestErr(g) ==
    LET fields == <<g.Workload, g.DevConfig, g.PlatformConfig, g.Context, g.SecretStore>>
        failing == {i \in 1..5 : MarshalValueErr(fields[i]) # NilError}
    IN  IF failing = {}
        THEN NilError
        ELSE MarshalValueErr(fields[CHOOSE i \in failing : \A j \in failing : i <= j])

(***************************************************************************)
(* NewGeneratorRequest, module.go:133-148: build the result, marshal it    *)
(* for the log, return it.                                                 *)
(***************************************************************************)
MarshalRequest(c) ==
    /\ pc[c] = "marshalRequest"
    /\ LET result == GeneratorRequest(req[c], vals[c])
           err == MarshalRequestErr(result)
       IN  IF err # NilError
           THEN /\ asm' = [asm EXCEPT ![c] =
                             [result |-> NilRequest,
                              err |-> Wrap("marshal new generator request failed", err)]]
                /\ UNCHANGED log
           ELSE /\ asm' = [asm EXCEPT ![c] = [result |-> result, err |-> NilError]]
                /\ log' = LogWrite(c, "new generator request", result)
    /\ pc' = [pc EXCEPT ![c] = "assembled"]
    /\ UNCHANGED <<req, ctx, layer, vals, decoded, invoked, passed, modOut,
                   resources, ret>>

\* module.go:151-154: a legal but empty response, never nil.
EmptyResponse == [Resources |-> <<>>, Patcher |-> NilBytes]

(***************************************************************************)
(* Generate, module.go:27-30: NewGeneratorRequest has returned.            *)
(***************************************************************************)
CheckAssembled(c) ==
    /\ pc[c] = "assembled"
    /\ IF asm[c].err # NilError
       THEN /\ ret' = [ret EXCEPT ![c] = [response |-> NilWireResponse, err |-> asm[c].err]]
            /\ pc' = [pc EXCEPT ![c] = "done"]
       ELSE /\ pc' = [pc EXCEPT ![c] = "invoke"]
            /\ UNCHANGED ret
    /\ UNCHANGED <<req, ctx, layer, vals, decoded, asm, invoked, passed, modOut,
                   resources, log>>

\* A faulty InvokeModule: a nil response of the module is returned as it is.
InvokeModuleNilForNil(c, outcomes) ==
    /\ pc[c] = "invoke"
    /\ invoked' = [invoked EXCEPT ![c] = @ + 1]
    /\ passed' = [passed EXCEPT ![c] = [ctx |-> ctx[c], request |-> asm[c].result]]
    /\ \E o \in outcomes :
          /\ modOut' = [modOut EXCEPT ![c] = o]
          /\ IF o.err # NilError
             THEN /\ ret' = [ret EXCEPT ![c] = [response |-> NilWireResponse, err |-> o.err]]
                  /\ pc' = [pc EXCEPT ![c] = "done"]
                  /\ UNCHANGED log
             ELSE IF o.response = NilResponse
             THEN /\ log' = LogWrite(c, "no resources generated by request", asm[c].result)
                  /\ ret' = [ret EXCEPT ![c] = [response |-> NilWireResponse, err |-> NilError]]
                  /\ pc' = [pc EXCEPT ![c] = "done"]
             ELSE /\ pc' = [pc EXCEPT ![c] = "encode"]
                  /\ UNCHANGED <<ret, log>>
    /\ UNCHANGED <<req, ctx, layer, vals, decoded, asm, resources>>

\* A faulty InvokeModule: the module's error is wrapped before it is returned.
InvokeModuleWrapError(c, outcomes) ==
    /\ pc[c] = "invoke"
    /\ invoked' = [invoked EXCEPT ![c] = @ + 1]
    /\ passed' = [passed EXCEPT ![c] = [ctx |-> ctx[c], request |-> asm[c].result]]
    /\ \E o \in outcomes :
          /\ modOut' = [modOut EXCEPT ![c] = o]
          /\ IF o.err # NilError
             THEN /\ ret' = [ret EXCEPT ![c] =
                               [response |-> NilWireResponse,
                                err |-> Wrap("generate failed", o.err)]]
                  /\ pc' = [pc EXCEPT ![c] = "done"]
                  /\ UNCHANGED log
             ELSE IF o.response = NilResponse
             THEN /\ log' = LogWrite(c, "no resources generated by request", asm[c].result)
                  /\ ret' = [ret EXCEPT ![c] = [response |-> EmptyResponse, err |-> NilError]]
                  /\ pc' = [pc EXCEPT ![c] = "done"]
             ELSE /\ pc' = [pc EXCEPT ![c] = "encode"]
                  /\ UNCHANGED <<ret, log>>
    /\ UNCHANGED <<req, ctx, layer, vals, decoded, asm, resources>>

\* A faulty InvokeModule: the module is invoked again when it returns the
\* cancellation error.
InvokeModuleRetry(c, outcomes) ==
    /\ pc[c] = "invoke"
    /\ invoked' = [invoked EXCEPT ![c] = @ + 1]
    /\ passed' = [passed EXCEPT ![c] = [ctx |-> ctx[c], request |-> asm[c].result]]
    /\ \E o \in outcomes :
          /\ modOut' = [modOut EXCEPT ![c] = o]
          /\ IF o.err = NewError("context canceled")
             THEN UNCHANGED <<ret, pc, log>>
             ELSE IF o.err # NilError
             THEN /\ ret' = [ret EXCEPT ![c] = [response |-> NilWireResponse, err |-> o.err]]
                  /\ pc' = [pc EXCEPT ![c] = "done"]
                  /\ UNCHANGED log
             ELSE IF o.response = NilResponse
             THEN /\ log' = LogWrite(c, "no resources generated by request", asm[c].result)
                  /\ ret' = [ret EXCEPT ![c] = [response |-> EmptyResponse, err |-> NilError]]
                  /\ pc' = [pc EXCEPT ![c] = "done"]
             ELSE /\ pc' = [pc EXCEPT ![c] = "encode"]
                  /\ UNCHANGED <<ret, log>>
    /\ UNCHANGED <<req, ctx, layer, vals, decoded, asm, resources>>

(***************************************************************************)
(* Generate, module.go:31-38: invoke the module with the caller's context  *)
(* and the typed request; return its error, or the empty response for a    *)
(* nil response; otherwise go on to encode.  The module returns one of     *)
(* outcomes.                                                               *)
(***************************************************************************)
InvokeModule(c, outcomes) ==
    /\ pc[c] = "invoke"
    /\ invoked' = [invoked EXCEPT ![c] = @ + 1]
    /\ passed' = [passed EXCEPT ![c] = [ctx |-> ctx[c], request |-> asm[c].result]]
    /\ \E o \in outcomes :
          /\ modOut' = [modOut EXCEPT ![c] = o]
          /\ IF o.err # NilError
             THEN /\ ret' = [ret EXCEPT ![c] = [response |-> NilWireResponse, err |-> o.err]]
                  /\ pc' = [pc EXCEPT ![c] = "done"]
                  /\ UNCHANGED log
             ELSE IF o.response = NilResponse
             THEN /\ log' = LogWrite(c, "no resources generated by request", asm[c].result)
                  /\ ret' = [ret EXCEPT ![c] = [response |-> EmptyResponse, err |-> NilError]]
                  /\ pc' = [pc EXCEPT ![c] = "done"]
             ELSE /\ pc' = [pc EXCEPT ![c] = "encode"]
                  /\ UNCHANGED <<ret, log>>
    /\ UNCHANGED <<req, ctx, layer, vals, decoded, asm, resources>>

\* A faulty MarshalResource: the encoded resource is put in front of the
\* ones already encoded.
MarshalResourcePrepend(c) ==
    /\ pc[c] = "encode"
    /\ Len(resources[c]) < Len(modOut[c].response.Resources)
    /\ LET res == modOut[c].response.Resources[Len(resources[c]) + 1]
           m == Marshal(res)
       IN  IF m.err # NilError
           THEN /\ ret' = [ret EXCEPT ![c] =
                             [response |-> NilWireResponse,
                              err |-> Wrap("marshal resource failed", m.err)]]
                /\ pc' = [pc EXCEPT ![c] = "done"]
                /\ UNCHANGED resources
           ELSE /\ resources' = [resources EXCEPT ![c] = <<m.out>> \o @]
                /\ UNCHANGED <<ret, pc>>
    /\ UNCHANGED <<req, ctx, layer, vals, decoded, asm, invoked, passed, modOut, log>>

\* A faulty MarshalResource: when a resource does not encode, the error is
\* returned together with the resources encoded so far.
MarshalResourcePartial(c) ==
    /\ pc[c] = "encode"
    /\ Len(resources[c]) < Len(modOut[c].response.Resources)
    /\ LET res == modOut[c].response.Resources[Len(resources[c]) + 1]
           m == Marshal(res)
       IN  IF m.err # NilError
           THEN /\ ret' = [ret EXCEPT ![c] =
                             [response |-> [Resources |-> resources[c], Patcher |-> NilBytes],
                              err |-> Wrap("marshal resource failed", m.err)]]
                /\ pc' = [pc EXCEPT ![c] = "done"]
                /\ UNCHANGED resources
           ELSE /\ resources' = [resources EXCEPT ![c] = Append(@, m.out)]
                /\ UNCHANGED <<ret, pc>>
    /\ UNCHANGED <<req, ctx, layer, vals, decoded, asm, invoked, passed, modOut, log>>

\* A faulty MarshalResource: the slice of encoded resources is one
\* package-level variable, which every call appends to and returns.
MarshalResourceShared(c) ==
    /\ pc[c] = "encode"
    /\ Len(resources[c]) < Len(modOut[c].response.Resources)
    /\ LET res == modOut[c].response.Resources[Len(resources[c]) + 1]
           m == Marshal(res)
       IN  IF m.err # NilError
           THEN /\ ret' = [ret EXCEPT ![c] =
                             [response |-> NilWireResponse,
                              err |-> Wrap("marshal resource failed", m.err)]]
                /\ pc' = [pc EXCEPT ![c] = "done"]
                /\ UNCHANGED resources
           ELSE /\ resources' = [d \in CallIds |-> Append(resources[c], m.out)]
                /\ UNCHANGED <<ret, pc>>
    /\ UNCHANGED <<req, ctx, layer, vals, decoded, asm, invoked, passed, modOut, log>>

(***************************************************************************)
(* Generate, module.go:42-48: one turn of the loop over                    *)
(* response.Resources; the next resource is the one after those encoded.   *)
(***************************************************************************)
MarshalResource(c) ==
    /\ pc[c] = "encode"
    /\ Len(resources[c]) < Len(modOut[c].response.Resources)
    /\ LET res == modOut[c].response.Resources[Len(resources[c]) + 1]
           m == Marshal(res)
       IN  IF m.err # NilError
           THEN /\ ret' = [ret EXCEPT ![c] =
                             [response |-> NilWireResponse,
                              err |-> Wrap("marshal resource failed", m.err)]]
                /\ pc' = [pc EXCEPT ![c] = "done"]
                /\ UNCHANGED resources
           ELSE /\ resources' = [resources EXCEPT ![c] = Append(@, m.out)]
                /\ UNCHANGED <<ret, pc>>
    /\ UNCHANGED <<req, ctx, layer, vals, decoded, asm, invoked, passed, modOut, log>>

(***************************************************************************)
(* Generate, module.go:50-61: the loop is over; encode the patcher if the  *)
(* response has one, and return the wire response.                         *)
(***************************************************************************)
MarshalPatcher(c) ==
    /\ pc[c] = "encode"
    /\ Len(resources[c]) = Len(modOut[c].response.Resources)
    /\ LET p == modOut[c].response.Patcher
           m == IF p # NilPatcher THEN Marshal(p) ELSE [out |-> NilBytes, err |-> NilError]
       IN  IF m.err # NilError
           THEN ret' = [ret EXCEPT ![c] =
                          [response |-> NilWireResponse,
                           err |-> Wrap("marshal patcher failed", m.err)]]
           ELSE ret' = [ret EXCEPT ![c] =
                          [response |-> [Resources |-> resources[c], Patcher |-> m.out],
                           err |-> NilError]]
    /\ pc' = [pc EXCEPT ![c] = "done"]
    /\ UNCHANGED <<req, ctx, layer, vals, decoded, asm, invoked, passed, modOut,
                   resources, log>>

(***************************************************************************)
(* Specifications.  Spec: one call, over every wire request and every      *)
(* module outcome.  ConcSpec: the calls of CallIds in progress at once,    *)
(* interleaved step by step, over the requests and outcomes of             *)
(* ConcRequests and ConcOutcomes.                                          *)
(***************************************************************************)
Step(c, reqs, outcomes) ==
    \/ Call(c, reqs)
    \/ ValidateRequest(c)
    \/ UnmarshalLayer(c)
    \/ MarshalRequest(c)
    \/ CheckAssembled(c)
    \/ InvokeModule(c, outcomes)
    \/ MarshalResource(c)
    \/ MarshalPatcher(c)

Next == Step("c1", WireRequests, ModuleOutcomes)

Spec == Init /\ [][Next]_vars

\* Requests with a nil, a decodable and an undecodable first and last layer.
ConcRequests ==
    {NilWireRequest} \cup
    {WireRequest(<<"p", "s", "a">>, <<w, NilBytes, NilBytes, NilBytes, s>>) :
        w \in {NilBytes, "doc", "bad"}, s \in {NilBytes, "bad"}}

ConcOutcomes ==
    {o \in ModuleOutcomes :
        /\ o.err # NilError => o.response = NilResponse
        /\ o.response # NilResponse =>
              /\ \A i \in 1..Len(o.response.Resources) :
                    o.response.Resources[i] \in {"r1", "rbad"}
              /\ o.response.Patcher \in {NilPatcher, "p1"}}

ConcNext == \E c \in CallIds : Step(c, ConcRequests, ConcOutcomes)

ConcSpec == Init /\ [][ConcNext]_vars

(***************************************************************************)
(* The same code as functions of the input: what one call returns when it  *)
(* runs alone on wire request r and the module returns o.                  *)
(***************************************************************************)
\* The least element of a non-empty set of numbers.
Min(S) == CHOOSE i \in S : \A j \in S : i <= j

\* module.go:89-149 as a function of the wire request.
NewGeneratorRequest(r) ==
    IF r = NilWireRequest
    THEN [result |-> NilRequest, err |-> NewError("empty generator request")]
    ELSE LET u(i) == Unmarshal(LayerCodec[i], LayerOf(r, i), LayerType[i])
             failing == {i \in 1..5 : LayerOf(r, i) # NilBytes /\ u(i).err # NilError}
             v == [i \in 1..5 |->
                     IF LayerOf(r, i) # NilBytes THEN u(i).val ELSE ZeroValue(LayerType[i])]
             result == GeneratorRequest(r, v)
         IN  IF failing # {}
             THEN [result |-> NilRequest,
                   err |-> Wrap(LayerErrMsg[Min(failing)], u(Min(failing)).err)]
             ELSE IF MarshalRequestErr(result) # NilError
             THEN [result |-> NilRequest,
                   err |-> Wrap("marshal new generator request failed",
                                MarshalRequestErr(result))]
             ELSE [result |-> result, err |-> NilError]

\* module.go:26-62 as a function of the wire request and of what the module returns.
Generate(r, o) ==
    LET a == NewGeneratorRequest(r)
    IN  IF a.err # NilError THEN [response |-> NilWireResponse, err |-> a.err]
        ELSE IF o.err # NilError THEN [response |-> NilWireResponse, err |-> o.err]
        ELSE IF o.response = NilResponse THEN [response |-> EmptyResponse, err |-> NilError]
        ELSE LET rs == o.response.Resources
                 p == o.response.Patcher
                 failing == {i \in 1..Len(rs) : Marshal(rs[i]).err # NilError}
             IN  IF failing # {}
                 THEN [response |-> NilWireResponse,
                       err |-> Wrap("marshal resource failed", Marshal(rs[Min(failing)]).err)]
                 ELSE IF p # NilPatcher /\ Marshal(p).err # NilError
                 THEN [response |-> NilWireResponse,
                       err |-> Wrap("marshal patcher failed", Marshal(p).err)]
                 ELSE [response |->
                          [Resources |-> [i \in 1..Len(rs) |-> Marshal(rs[i]).out],
                           Patcher |-> IF p # NilPatcher THEN Marshal(p).out ELSE NilBytes],
                       err |-> NilError]

(***************************************************************************)
(* Properties.                                                             *)
(***************************************************************************)
\* The call has returned from NewGeneratorRequest.
Assembled(c) == asm[c] # NoReturn

\* The call has returned from Generate.
Done(c) == pc[c] = "done"

\* The module has returned to the call.
Returned(c) == modOut[c] # NoReturn

\* The layers of a non-nil wire request that are present, and those malformed.
Present(r) == {i \in 1..5 : LayerOf(r, i) # NilBytes}
Malformed(r) ==
    {i \in Present(r) : Unmarshal(LayerCodec[i], LayerOf(r, i), LayerType[i]).err # NilError}

\* The five layer values of a typed request.
LayerValues(g) == <<g.Workload, g.DevConfig, g.PlatformConfig, g.Context, g.SecretStore>>

C2_FirstMalformedLayer ==
    \A c \in CallIds :
        (Assembled(c) /\ req[c] # NilWireRequest /\ Malformed(req[c]) # {}) =>
            LET first == Min(Malformed(req[c]))
            IN  /\ asm[c].result = NilRequest
                /\ asm[c].err.msg = LayerErrMsg[first]
                /\ \A i \in 1..5 : asm[c].err.msg = LayerErrMsg[i] => i = first
                /\ asm[c].err.cause =
                      Unmarshal(LayerCodec[first], LayerOf(req[c], first),
                                LayerType[first]).err
                /\ decoded[c] = {i \in Present(req[c]) : i <= first}
                /\ invoked[c] = 0
                /\ ~Returned(c)
                /\ Done(c) => ret[c] = [response |-> NilWireResponse, err |-> asm[c].err]

\* A call has returned for a request whose workload decodes and whose
\* devConfig, context and secretStore are all malformed.
C2_Witness ==
    \E c \in CallIds :
        /\ Done(c)
        /\ req[c] # NilWireRequest
        /\ Malformed(req[c]) = {2, 4, 5}
        /\ 1 \in Present(req[c])
        /\ ret[c].err.msg = "unmarshal dev config failed"

(***************************************************************************)
(* C3.  The module returns a nil response and no error: Generate returns   *)
(* the empty response, not nil, with no resources and no patcher, and no   *)
(* error, whatever the request; and no call that returns without an error  *)
(* returns a nil response.                                                 *)
(***************************************************************************)
C3_NilResultIsEmptyResponse ==
    \A c \in CallIds :
        /\ (Done(c) /\ Returned(c) /\ modOut[c].response = NilResponse
                    /\ modOut[c].err = NilError) =>
              /\ ret[c].err = NilError
              /\ ret[c].response # NilWireResponse
              /\ ret[c].response = EmptyResponse
              /\ ret[c].response.Resources = <<>>
              /\ ret[c].response.Patcher = NilBytes
        /\ (Done(c) /\ ret[c].err = NilError) => ret[c].response # NilWireResponse

\* A call with a workload and a secret store has returned after the module
\* returned nil, nil.
C3_Witness ==
    \E c \in CallIds :
        /\ Done(c)
        /\ Returned(c)
        /\ modOut[c] = [response |-> NilResponse, err |-> NilError]
        /\ Present(req[c]) = {1, 5}

(***************************************************************************)
(* C4.  The module returns N resources and every resource, and the patcher *)
(* if there is one, encodes: the wire response has exactly N resource      *)
(* entries, entry i the encoding of resource i, and a patcher entry        *)
(* exactly when the module's response had a patcher.                       *)
(***************************************************************************)
C4_ResourcesInOrder ==
    \A c \in CallIds :
        (/\ Done(c) /\ Returned(c)
         /\ modOut[c].err = NilError
         /\ modOut[c].response # NilResponse
         /\ \A i \in 1..Len(modOut[c].response.Resources) :
               Marshal(modOut[c].response.Resources[i]).err = NilError
         /\ modOut[c].response.Patcher # NilPatcher =>
               Marshal(modOut[c].response.Patcher).err = NilError) =>
            LET rs == modOut[c].response.Resources
                p == modOut[c].response.Patcher
            IN  /\ ret[c].err = NilError
                /\ ret[c].response # NilWireResponse
                /\ Len(ret[c].response.Resources) = Len(rs)
                /\ \A i \in 1..Len(rs) : ret[c].response.Resources[i] = Marshal(rs[i]).out
                /\ (ret[c].response.Patcher # NilBytes) <=> (p # NilPatcher)
                /\ p # NilPatcher => ret[c].response.Patcher = Marshal(p).out

\* Scenario C: the module returned two different resources and a patcher.
C4_Witness ==
    \E c \in CallIds :
        /\ Done(c)
        /\ Returned(c)
        /\ modOut[c] = [response |-> [Resources |-> <<"r2", "r1">>, Patcher |-> "p1"],
                        err |-> NilError]
        /\ ret[c].response # NilWireResponse
        /\ Len(ret[c].response.Resources) = 2

(***************************************************************************)
(* C5.  A call of Generate ends with a response and no error, or with an   *)
(* error and no response.  When resource K does not encode, or the patcher *)
(* does not encode after every resource did, it ends with the error and    *)
(* no response: the entries already encoded are not returned.              *)
(***************************************************************************)
C5_ResponseXorError ==
    \A c \in CallIds :
        /\ Done(c) =>
              \/ ret[c].response # NilWireResponse /\ ret[c].err = NilError
              \/ ret[c].response = NilWireResponse /\ ret[c].err # NilError
        /\ (Done(c) /\ Returned(c) /\ modOut[c].err = NilError
                    /\ modOut[c].response # NilResponse) =>
              LET rs == modOut[c].response.Resources
                  p == modOut[c].response.Patcher
                  failing == {i \in 1..Len(rs) : Marshal(rs[i]).err # NilError}
              IN  /\ failing # {} =>
                        /\ ret[c].response = NilWireResponse
                        /\ ret[c].err = Wrap("marshal resource failed",
                                              Marshal(rs[Min(failing)]).err)
                        /\ Len(resources[c]) = Min(failing) - 1
                  /\ (failing = {} /\ p # NilPatcher /\ Marshal(p).err # NilError) =>
                        /\ ret[c].response = NilWireResponse
                        /\ ret[c].err = Wrap("marshal patcher failed", Marshal(p).err)
                        /\ Len(resources[c]) = Len(rs)

\* A call has returned after its second resource failed to encode, the
\* first one encoded.
C5_Witness ==
    \E c \in CallIds :
        /\ Done(c)
        /\ Returned(c)
        /\ modOut[c].err = NilError
        /\ modOut[c].response # NilResponse
        /\ modOut[c].response.Resources = <<"r1", "rbad">>
        /\ resources[c] = <<Marshal("r1").out>>
        /\ ret[c].err # NilError

C7_LogMarshalIsBestEffort ==
    \A c \in CallIds :
        (Assembled(c) /\ req[c] # NilWireRequest /\ Malformed(req[c]) = {}) =>
            /\ asm[c].err = NilError
            /\ asm[c].result = GeneratorRequest(req[c], vals[c])

(***************************************************************************)
(* C8.  When NewGeneratorRequest fails, Generate returns the very error it *)
(* returned and does not invoke the module; when the module fails,         *)
(* Generate returns the very error the module returned and encodes         *)
(* nothing.                                                                *)
(***************************************************************************)
C8_ErrorsPassedUnchanged ==
    \A c \in CallIds :
        /\ (Done(c) /\ asm[c].err # NilError) =>
              /\ ret[c] = [response |-> NilWireResponse, err |-> asm[c].err]
              /\ invoked[c] = 0
              /\ ~Returned(c)
              /\ resources[c] = <<>>
        /\ (Done(c) /\ Returned(c) /\ modOut[c].err # NilError) =>
              /\ ret[c] = [response |-> NilWireResponse, err |-> modOut[c].err]
              /\ resources[c] = <<>>

\* A call has returned after the module returned both a response with
\* resources and an error.
C8_Witness ==
    \E c \in CallIds :
        /\ Done(c)
        /\ Returned(c)
        /\ modOut[c].err = NewError("module failed")
        /\ modOut[c].response # NilResponse
        /\ modOut[c].response.Resources = <<"r1">>
        /\ ret[c].err = NewError("module failed")

(***************************************************************************)
(* C9.  Calls in progress at once do not interfere: in every interleaving  *)
(* of their steps, what NewGeneratorRequest returned to a call and what    *)
(* the call returned are what the call's own wire request and its own      *)
(* module outcome give when the code runs alone.                           *)
(***************************************************************************)
C9_CallsDoNotInterfere ==
    \A c \in CallIds :
        /\ Assembled(c) => asm[c] = NewGeneratorRequest(req[c])
        /\ Returned(c) => passed[c] = [ctx |-> ctx[c],
                                       request |-> NewGeneratorRequest(req[c]).result]
        /\ Done(c) => ret[c] = Generate(req[c], modOut[c])
        /\ \A e \in log : e.call = c => pc[c] # "idle"

\* One call has returned a response with resources while another, on a
\* different request, is in the middle of encoding its own.
C9_Witness ==
    \E c, d \in CallIds :
        /\ c # d
        /\ Done(c)
        /\ ret[c].err = NilError
        /\ Len(ret[c].response.Resources) = 1
        /\ pc[d] = "encode"
        /\ Len(resources[d]) = 1
        /\ req[c] # req[d]
        /\ modOut[c] # modOut[d]

(***************************************************************************)
(* C10.  A call is one pass decode, invoke, encode: the module is not      *)
(* invoked before the request is assembled, is invoked exactly once when   *)
(* assembly succeeded and never otherwise, is not invoked again after it   *)
(* returned (an error, a cancellation error or a response), is invoked     *)
(* with the caller's context whatever its state and with the assembled     *)
(* request, and encoding happens only after the module returned a response *)
(* and no error.                                                           *)
(***************************************************************************)
C10_LinearPipeline ==
    \A c \in CallIds :
        /\ invoked[c] <= 1
        /\ pc[c] \in {"idle", "validate", "unmarshal", "marshalRequest", "assembled",
                       "invoke"} =>
              invoked[c] = 0 /\ ~Returned(c) /\ resources[c] = <<>> /\ ret[c] = NoReturn
        /\ pc[c] = "invoke" => asm[c].err = NilError
        /\ (pc[c] = "encode" \/ resources[c] # <<>>) =>
              /\ invoked[c] = 1
              /\ Returned(c)
              /\ modOut[c].err = NilError
              /\ modOut[c].response # NilResponse
        /\ Done(c) => invoked[c] = (IF asm[c].err = NilError THEN 1 ELSE 0)
        /\ invoked[c] = 1 <=> Returned(c)
        /\ invoked[c] = 1 => passed[c] = [ctx |-> ctx[c], request |-> asm[c].result]

\* A call made with a cancelled context has returned the cancellation
\* error of the one invocation of the module.
C10_Witness ==
    \E c \in CallIds :
        /\ Done(c)
        /\ ctx[c] = "cancelled"
        /\ invoked[c] = 1
        /\ passed[c].ctx = "cancelled"
        /\ ret[c].err = NewError("context canceled")

(***************************************************************************)
(* The earlier adapter (the second source file, whose NewGeneratorRequest  *)
(* has four layers and requires the workload).  It is modelled on the      *)
(* same variables, NewGeneratorRequest and the rest of Generate each as    *)
(* one step, to set the present contract against the earlier one; no       *)
(* property C1 to C10 is about it.                                         *)
(***************************************************************************)
\* A goroutine panic, which neither function recovers from.
Panic(msg) == [panic |-> msg]

LegacyWireRequest(layers) ==
    [Project |-> "p", Stack |-> "s", App |-> "a",
     Workload |-> layers[1], DevModuleConfig |-> layers[2],
     PlatformModuleConfig |-> layers[3], RuntimeConfig |-> layers[4]]

LegacyWireRequests ==
    {NilWireRequest} \cup {LegacyWireRequest(layers) : layers \in [1..4 -> Blobs]}

\* What the earlier NewGeneratorRequest may return for wire request r.  A nil
\* r is dereferenced by req.Workload.  A RuntimeConfig that parses is
\* decoded into the nil pointer rc: the decoder panics on it, or (a
\* document it has nothing to store for) leaves rc nil.
LegacyNewGeneratorRequest(r) ==
    IF r = NilWireRequest
    THEN {Panic("nil pointer dereference")}
    ELSE LET w == Unmarshal("yaml.v2", r.Workload, "*workload.Workload")
             dc == Unmarshal("yaml.v2", r.DevModuleConfig, "v1.Accessory")
             pcfg == Unmarshal("yaml.v2", r.PlatformModuleConfig, "v1.GenericConfig")
             rc == Unmarshal("yaml.v2", r.RuntimeConfig, "*v1.RuntimeConfigs")
             result ==
                 [Project |-> r.Project, Stack |-> r.Stack, App |-> r.App,
                  Workload |-> w.val,
                  DevModuleConfig |->
                      IF r.DevModuleConfig # NilBytes THEN dc.val
                      ELSE ZeroValue("v1.Accessory"),
                  PlatformModuleConfig |->
                      IF r.PlatformModuleConfig # NilBytes THEN pcfg.val
                      ELSE ZeroValue("v1.GenericConfig"),
                  RuntimeConfig |-> ZeroValue("*v1.RuntimeConfigs")]
             failing == {v \in {result.Workload, result.DevModuleConfig,
                                 result.PlatformModuleConfig} :
                            MarshalValueErr(v) # NilError}
             fail(msg, e) == {[result |-> NilRequest, err |-> Wrap(msg, e)]}
         IN  IF r.Workload = NilBytes
             THEN {[result |-> NilRequest,
                    err |-> NewError("workload in the request is nil")]}
             ELSE IF w.err # NilError THEN fail("unmarshal workload failed", w.err)
             ELSE IF r.DevModuleConfig # NilBytes /\ dc.err # NilError
             THEN fail("unmarshal dev module config failed", dc.err)
             ELSE IF r.PlatformModuleConfig # NilBytes /\ pcfg.err # NilError
             THEN fail("unmarshal platform module config failed", pcfg.err)
             ELSE IF r.RuntimeConfig # NilBytes /\ rc.err # NilError
             THEN fail("unmarshal runtime config failed", rc.err)
             ELSE (IF r.RuntimeConfig # NilBytes
                   THEN {Panic("reflect.Value.Set using unaddressable value")}
                   ELSE {}) \cup
                  (IF failing # {}
                   THEN fail("marshal new generator request failed",
                             MarshalValueErr(CHOOSE v \in failing : TRUE))
                   ELSE {[result |-> result, err |-> NilError]})

\* The earlier Generate from the module's return on: no patcher, and the
\* empty response for a nil response or nil resources.
LegacyEncode(o) ==
    IF o.err # NilError THEN [response |-> NilWireResponse, err |-> o.err]
    ELSE IF o.response = NilResponse \/ o.response.Resources = <<>>
    THEN [response |-> EmptyResponse, err |-> NilError]
    ELSE LET rs == o.response.Resources
             failing == {i \in 1..Len(rs) : Marshal(rs[i]).err # NilError}
         IN  IF failing # {}
             THEN [response |-> NilWireResponse,
                   err |-> Wrap("marshal resource failed", Marshal(rs[Min(failing)]).err)]
             ELSE [response |-> [Resources |-> [i \in 1..Len(rs) |-> Marshal(rs[i]).out],
                                 Patcher |-> NilBytes],
                   err |-> NilError]

LegacyCall(c) ==
    /\ pc[c] = "idle"
    /\ \E r \in LegacyWireRequests : req' = [req EXCEPT ![c] = r]
    /\ pc' = [pc EXCEPT ![c] = "validate"]
    /\ UNCHANGED <<ctx, layer, vals, decoded, asm, invoked, passed, modOut,
                   resources, ret, log>>

LegacyAssemble(c) ==
    /\ pc[c] = "validate"
    /\ log' = LogWrite(c, "module proto request received", req[c])
    /\ \E a \in LegacyNewGeneratorRequest(req[c]) :
          /\ asm' = [asm EXCEPT ![c] = a]
          /\ IF "panic" \in DOMAIN a
             THEN /\ ret' = [ret EXCEPT ![c] = a]
                  /\ pc' = [pc EXCEPT ![c] = "done"]
             ELSE IF a.err # NilError
             THEN /\ ret' = [ret EXCEPT ![c] = [response |-> NilWireResponse, err |-> a.err]]
                  /\ pc' = [pc EXCEPT ![c] = "done"]
             ELSE /\ pc' = [pc EXCEPT ![c] = "invoke"]
                  /\ UNCHANGED ret
    /\ UNCHANGED <<req, ctx, layer, vals, decoded, invoked, passed, modOut, resources>>

LegacyInvoke(c) ==
    /\ pc[c] = "invoke"
    /\ invoked' = [invoked EXCEPT ![c] = @ + 1]
    /\ passed' = [passed EXCEPT ![c] = [ctx |-> ctx[c], request |-> asm[c].result]]
    /\ \E o \in {x \in ModuleOutcomes :
                     x.response # NilResponse => x.response.Patcher = NilPatcher} :
          /\ modOut' = [modOut EXCEPT ![c] = o]
          /\ ret' = [ret EXCEPT ![c] = LegacyEncode(o)]
    /\ pc' = [pc EXCEPT ![c] = "done"]
    /\ UNCHANGED <<req, ctx, layer, vals, decoded, asm, resources, log>>

LegacyNext == LegacyCall("c1") \/ LegacyAssemble("c1") \/ LegacyInvoke("c1")

LegacySpec == Init /\ [][LegacyNext]_vars

\* The earlier contract: a request without a workload is rejected, and a
\* nil request is not rejected but dereferenced.
LegacyWorkloadRequired ==
    \A c \in CallIds :
        /\ (Assembled(c) /\ req[c] # NilWireRequest /\ req[c].Workload = NilBytes) =>
              asm[c] = [result |-> NilRequest,
                        err |-> NewError("workload in the request is nil")]
        /\ (Assembled(c) /\ req[c] = NilWireRequest) =>
              asm[c] = Panic("nil pointer dereference")

====
